---- MODULE Spec2Model ----
(***************************************************************************)
(* ETL-AUDIT: a model of                                                   *)
(*   - analyze_etl_script (Prompt.py): one generation request, the        *)
(*     fragment loop that accumulates audit_report, the regex search for   *)
(*     the structured-results block, json.loads, and the three error       *)
(*     mappings;                                                           *)
(*   - etl_pipeline / load_data / checkpoints (etl_complete_testcases.py). *)
(*                                                                         *)
(* Text is a sequence of lexical tokens.  Each token stands for the exact  *)
(* characters named by its string: "FENCE" is three backticks, "\n" one    *)
(* newline, "structured-results" the tag, "a:" and "b:" the JSON keys      *)
(* "a": and "b": with their colon, "1" a JSON number, "x" text that is     *)
(* not JSON, " " one blank.                                                *)
(***************************************************************************)
EXTENDS Integers, Sequences, FiniteSets, TLC

VARIABLES
  pc,             \* position of the call of analyze_etl_script
  script_content, \* the argument: "text" (a str) or "None"
  stdout_ok,      \* whether print() to sys.stdout succeeds during the call
  api_calls,      \* number of call_genai_api invocations so far
  passes,         \* number of passes started over the fragment stream
  delivered,      \* the chunks the stream has yielded so far, in order
  audit_report,   \* the accumulator of line 86
  exc,            \* the exception caught by line 108 ("" when none)
  result,         \* the returned mapping (<<>> before the return)
  epc,            \* position of etl_pipeline
  approval,       \* admin_approval.json says approved
  source,         \* rows of data/source_data.csv (<<>> when the file is absent)
  df,             \* the data frame handed from stage to stage
  table,          \* ids appended to the customers table, in order
  checkpoints,    \* last_processed_id rows of etl_checkpoint, oldest first
  run,            \* what the current run has done
  runs            \* completed pipeline runs

avars == <<pc, script_content, stdout_ok, api_calls, passes, delivered,
           audit_report, exc, result>>
evars == <<epc, approval, source, df, table, checkpoints, run, runs>>
vars == <<pc, script_content, stdout_ok, api_calls, passes, delivered,
          audit_report, exc, result, epc, approval, source, df, table,
          checkpoints, run, runs>>

\* Longest fragment stream the model delivers.
MaxFrags == 4

\* Pipeline runs the model follows, and the largest record id of a source file.
MaxRuns == 3

MaxId == 2

----------------------------------------------------------------------------

(* Tokens and the texts the generation service can stream.                 *)

\* the three backticks of a Markdown fence (a backtick cannot be written in a
\* TLA+ string)
FENCE == "FENCE"
TAG == "structured-results"
NL == "\n"
LBRACE == "{"
RBRACE == "}"

\* ```structured-results\n  (the opening line of the block)
OpenLine == <<FENCE, TAG, NL>>
\* \n```  (the closing fence on its own line)
CloseLine == <<NL, FENCE>>
ObjA == <<LBRACE, "a:", "1", RBRACE>>
ObjB == <<LBRACE, "b:", "1", RBRACE>>
BadObj == <<LBRACE, "x", RBRACE>>

\* delta.content values of the chunks of the stream: line 88 tells None from
\* a str, and "" is a str.  A chunk carries a piece of a block, a whole
\* block, a blank, nothing, or no content.
NoneChunk == [none |-> TRUE, content |-> <<>>]

StrChunk(s) == [none |-> FALSE, content |-> s]

Chunks ==
  { StrChunk(OpenLine \o ObjA), StrChunk(OpenLine \o ObjB \o CloseLine),
    StrChunk(OpenLine \o BadObj), StrChunk(OpenLine), StrChunk(CloseLine),
    StrChunk(<<" ">>), StrChunk(<<>>), NoneChunk }

\* str(e) of the exceptions call_genai_api or the stream can raise.
Causes == {"Connection error.", "list index out of range"}

----------------------------------------------------------------------------

(* re.search(r"```structured-results\n({.*?})\n```", audit_report,         *)
(* re.DOTALL), line 94.                                                    *)

At(t, i) == IF i >= 1 /\ i <= Len(t) THEN t[i] ELSE ""

\* the literal prefix ```structured-results\n{ of the pattern at position i
OpensAt(t, i) ==
  /\ At(t, i) = FENCE
  /\ At(t, i + 1) = TAG
  /\ At(t, i + 2) = NL
  /\ At(t, i + 3) = LBRACE

\* the literal suffix }\n``` of the pattern, its } at position j
ClosesAt(t, j) ==
  /\ At(t, j) = RBRACE
  /\ At(t, j + 1) = NL
  /\ At(t, j + 2) = FENCE

Min(S) == CHOOSE m \in S : \A k \in S : m <= k

Max(S) == CHOOSE m \in S : \A k \in S : m >= k

\* ends of group 1 for a match that starts at i
Ends(t, i) == { j \in (i + 4)..Len(t) : ClosesAt(t, j) }

\* starts at which the whole pattern can match
Starts(t) == { i \in 1..Len(t) : OpensAt(t, i) /\ Ends(t, i) # {} }

\* a greedy .* instead: the match runs to the last } followed by \n```
GroupEndGreedy(t, i) == Max(Ends(t, i))

\* .*? is non-greedy: the match ends at the first } followed by \n```
GroupEnd(t, i) == Min(Ends(t, i))

\* the last match instead of the first
MatchStartLast(t) == Max(Starts(t))

\* re.search scans from the left: the leftmost start that can match
MatchStart(t) == Min(Starts(t))

\* the match object: found, and group 1 as [from, to] with its text
re_search(t) ==
  IF Starts(t) = {}
    THEN [found |-> FALSE, from |-> 0, to |-> 0, group |-> <<>>]
    ELSE LET i == MatchStart(t)
             j == GroupEnd(t, i)
         IN [found |-> TRUE, from |-> i + 3, to |-> j,
             group |-> SubSeq(t, i + 3, j)]

----------------------------------------------------------------------------

(* json.loads(structured_json_str), line 99, on the token grammar          *)
(*   value  ::= ws ( "1" | "{" ws [ key value ws ] "}" )                   *)
(* followed by ws and the end of the text; anything else raises            *)
(* json.JSONDecodeError.  The value is the Python object: 1 for the number *)
(* and a dict (a function from key to value) for an object.                *)

IsWs(tok) == tok = " " \/ tok = NL

RECURSIVE SkipWs(_)
SkipWs(t) == IF t # <<>> /\ IsWs(Head(t)) THEN SkipWs(Tail(t)) ELSE t

IsKey(tok) == tok = "a:" \/ tok = "b:"

KeyOf(tok) == IF tok = "a:" THEN "a" ELSE "b"

Rejected == [ok |-> FALSE, val |-> <<>>, rest |-> <<>>]

RECURSIVE ParseValue(_)
ParseValue(t) ==
  LET u == SkipWs(t) IN
  IF u = <<>> THEN Rejected
  ELSE IF Head(u) = "1" THEN [ok |-> TRUE, val |-> 1, rest |-> Tail(u)]
  ELSE IF Head(u) # LBRACE THEN Rejected
  ELSE
    LET v == SkipWs(Tail(u)) IN
    IF v = <<>> THEN Rejected
    ELSE IF Head(v) = RBRACE THEN [ok |-> TRUE, val |-> <<>>, rest |-> Tail(v)]
    ELSE IF ~IsKey(Head(v)) THEN Rejected
    ELSE
      LET m == ParseValue(Tail(v)) IN
      IF ~m.ok THEN Rejected
      ELSE
        LET w == SkipWs(m.rest) IN
        IF w # <<>> /\ Head(w) = RBRACE
          THEN [ok |-> TRUE, val |-> (KeyOf(Head(v)) :> m.val), rest |-> Tail(w)]
          ELSE Rejected

\* ok = FALSE is json.JSONDecodeError (also for text left after the value)
json_loads(t) ==
  LET r == ParseValue(t) IN
  IF r.ok /\ SkipWs(r.rest) = <<>>
    THEN [ok |-> TRUE, val |-> r.val]
    ELSE [ok |-> FALSE, val |-> <<>>]

----------------------------------------------------------------------------

(* The mappings analyze_etl_script returns.                                *)

\* the JSONDecodeError handler handing the text back as well
InvalidJsonErrorWithText ==
  [error |-> "Failed to parse structured JSON.", raw_text |-> audit_report]

\* line 103
InvalidJsonError == [error |-> "Failed to parse structured JSON."]

\* line 106 without the text
NoBlockErrorNoText(t) == [error |-> "AI did not return structured JSON"]

\* line 106
NoBlockError(t) ==
  [error |-> "AI did not return structured JSON", raw_text |-> t]

\* the handler handing back what was accumulated before the failure
GenerationErrorWithText(e) ==
  [error |-> e \o "\n\nPlease check the input and try again.",
   raw_text |-> audit_report]

\* line 110
GenerationError(e) ==
  [error |-> e \o "\n\nPlease check the input and try again."]

\* lines 97-103: group 1 parsed, or the JSONDecodeError handler
ParseGroup(g) ==
  LET r == json_loads(g) IN IF r.ok THEN r.val ELSE InvalidJsonError

\* lines 94-106
Extract(t) ==
  LET m == re_search(t) IN
  IF m.found THEN ParseGroup(m.group) ELSE NoBlockError(t)

\* the chunk put in front of the accumulator
AccumulatePrepend(report, chunk) ==
  IF ~chunk.none THEN chunk.content \o report ELSE report

\* lines 88-90: audit_report after one chunk
Accumulate(report, chunk) ==
  IF ~chunk.none THEN report \o chunk.content ELSE report

----------------------------------------------------------------------------

(* analyze_etl_script, one call.                                           *)

AInit ==
  /\ pc = "entry"
  /\ script_content \in {"text", "None"}
  /\ stdout_ok \in BOOLEAN
  /\ api_calls = 0
  /\ passes = 0
  /\ delivered = <<>>
  /\ audit_report = <<>>
  /\ exc = ""
  /\ result = <<>>

\* lines 4-80, outside the try: print() raises when stdout cannot be written,
\* and script_content[:100] raises TypeError when script_content is None.
\* The prompt text itself decides nothing later in the call.
BuildPrompt ==
  /\ pc = "entry"
  /\ pc' = IF stdout_ok /\ script_content # "None" THEN "try" ELSE "raised"
  /\ UNCHANGED <<script_content, stdout_ok, api_calls, passes, delivered,
                 audit_report, exc, result>>
  /\ UNCHANGED evars

\* line 83: the completion is obtained and the loop of line 87 starts
CallReturns ==
  /\ pc = "try"
  /\ api_calls' = api_calls + 1
  /\ passes' = passes + 1
  /\ pc' = "loop"
  /\ UNCHANGED <<script_content, stdout_ok, delivered, audit_report, exc,
                 result>>
  /\ UNCHANGED evars

\* line 83: call_genai_api raises
CallRaises ==
  /\ pc = "try"
  /\ api_calls' = api_calls + 1
  /\ \E c \in Causes : exc' = c
  /\ pc' = "except"
  /\ UNCHANGED <<script_content, stdout_ok, passes, delivered, audit_report,
                 result>>
  /\ UNCHANGED evars

\* lines 87-90: the stream yields one more chunk
NextChunk ==
  /\ pc = "loop"
  /\ Len(delivered) < MaxFrags
  /\ \E chunk \in Chunks :
       /\ delivered' = Append(delivered, chunk)
       /\ audit_report' = Accumulate(audit_report, chunk)
  /\ UNCHANGED <<pc, script_content, stdout_ok, api_calls, passes, exc,
                 result>>
  /\ UNCHANGED evars

\* line 87: the stream raises instead of yielding
StreamRaises ==
  /\ pc = "loop"
  /\ \E c \in Causes : exc' = c
  /\ pc' = "except"
  /\ UNCHANGED <<script_content, stdout_ok, api_calls, passes, delivered,
                 audit_report, result>>
  /\ UNCHANGED evars

\* the stream is exhausted: lines 94-106
ReturnExtracted ==
  /\ pc = "loop"
  /\ result' = Extract(audit_report)
  /\ pc' = "returned"
  /\ UNCHANGED <<script_content, stdout_ok, api_calls, passes, delivered,
                 audit_report, exc>>
  /\ UNCHANGED evars

\* a handler that asks the generation service again
ExceptHandlerRetry ==
  /\ pc = "except"
  /\ pc' = "try"
  /\ exc' = ""
  /\ delivered' = <<>>
  /\ audit_report' = <<>>
  /\ UNCHANGED <<script_content, stdout_ok, api_calls, passes, result>>
  /\ UNCHANGED evars

\* lines 108-110
ExceptHandler ==
  /\ pc = "except"
  /\ result' = GenerationError(exc)
  /\ pc' = "returned"
  /\ UNCHANGED <<script_content, stdout_ok, api_calls, passes, delivered,
                 audit_report, exc>>
  /\ UNCHANGED evars

ANext ==
  \/ BuildPrompt
  \/ CallReturns
  \/ CallRaises
  \/ NextChunk
  \/ StreamRaises
  \/ ReturnExtracted
  \/ ExceptHandler

----------------------------------------------------------------------------

(* etl_pipeline and its stages.  A source row is [id, age]; a source file  *)
(* holds rows with unique ids.  The customers table is the number of times *)
(* each id has been appended.  Every stage that catches its own exception  *)
(* has a failing outcome here.                                             *)

Ids == 1..MaxId

Ages == {0, 30}

Files == { f \in SUBSET [id : Ids, age : Ages] :
             \A r1, r2 \in f : r1.id = r2.id => r1 = r2 }

NoFile == [exists |-> FALSE, rows |-> {}]

FreshRun ==
  [approved |-> FALSE, extracted |-> FALSE, transformed |-> FALSE,
   load |-> "none", archived |-> FALSE, report |-> FALSE, success |-> FALSE]

EInit ==
  /\ epc = "idle"
  /\ approval \in BOOLEAN
  /\ source \in {NoFile} \cup { [exists |-> TRUE, rows |-> f] : f \in Files }
  /\ df = {}
  /\ table = [i \in Ids |-> 0]
  /\ checkpoints = <<>>
  /\ run = FreshRun
  /\ runs = 0

\* The operator's side, between runs: admin_approval.json is rewritten, or a
\* new data/source_data.csv is put in place.
SetApproval ==
  /\ epc = "idle"
  /\ approval' = ~approval
  /\ UNCHANGED <<epc, source, df, table, checkpoints, run, runs>>
  /\ UNCHANGED avars

PlaceSourceFile ==
  /\ epc = "idle"
  /\ \E f \in Files : source' = [exists |-> TRUE, rows |-> f]
  /\ UNCHANGED <<epc, approval, df, table, checkpoints, run, runs>>
  /\ UNCHANGED avars

\* lines 242-246 with requires_admin_approval (60-71)
StartRun ==
  /\ epc = "idle"
  /\ runs < MaxRuns
  /\ run' = [FreshRun EXCEPT !.approved = approval]
  /\ epc' = IF approval THEN "extract" ELSE "idle"
  /\ runs' = IF approval THEN runs ELSE runs + 1
  /\ UNCHANGED <<approval, source, df, table, checkpoints>>
  /\ UNCHANGED avars

\* lines 248-251 with extract_data (73-82): pd.read_csv succeeds
ExtractOk ==
  /\ epc = "extract"
  /\ source.exists
  /\ df' = source.rows
  /\ run' = [run EXCEPT !.extracted = TRUE]
  /\ epc' = "validate"
  /\ UNCHANGED <<approval, source, table, checkpoints, runs>>
  /\ UNCHANGED avars

\* lines 248-251: pd.read_csv raises (no file, or an unreadable one), df is None
ExtractFails ==
  /\ epc = "extract"
  /\ epc' = "idle"
  /\ runs' = runs + 1
  /\ UNCHANGED <<approval, source, df, table, checkpoints, run>>
  /\ UNCHANGED avars

\* line 253 with validate_data (84-92): rows with age > 0 are kept
validate_data(d) == { r \in d : r.age > 0 }

Validate ==
  /\ epc = "validate"
  /\ df' = validate_data(df)
  /\ epc' = "transform"
  /\ UNCHANGED <<approval, source, table, checkpoints, run, runs>>
  /\ UNCHANGED avars

\* lines 254-257 with transform_data (94-105): the ids are left as they are
TransformOk ==
  /\ epc = "transform"
  /\ run' = [run EXCEPT !.transformed = TRUE]
  /\ epc' = "load"
  /\ UNCHANGED <<approval, source, df, table, checkpoints, runs>>
  /\ UNCHANGED avars

\* lines 254-257: transform_data raises and returns None
TransformFails ==
  /\ epc = "transform"
  /\ epc' = "idle"
  /\ runs' = runs + 1
  /\ UNCHANGED <<approval, source, df, table, checkpoints, run>>
  /\ UNCHANGED avars

\* get_last_checkpoint (133-142): the newest row, or None (0 here: line 160
\* tests the truth of last_id, and None and 0 are both false) when the table
\* is empty or the query raises
get_last_checkpoint(readable) ==
  IF readable /\ checkpoints # <<>>
    THEN checkpoints[Len(checkpoints)]
    ELSE 0

\* lines 160-162
NewRecords(d, last_id) ==
  IF last_id # 0 THEN { r \in d : r.id > last_id } ELSE d

\* save_checkpoint (144-151): the insert, or the exception it swallows
save_checkpoint(cps, last_id, saved) ==
  IF saved THEN Append(cps, last_id) ELSE cps

IdsOf(d) == { r.id : r \in d }

\* line 168: df.to_sql(..., if_exists="append")
to_sql(t, d) == [i \in Ids |-> IF i \in IdsOf(d) THEN t[i] + 1 ELSE t[i]]

\* line 259 with load_data (153-174): nothing new, so the load step is skipped
LoadSkips ==
  /\ epc = "load"
  /\ \E readable \in BOOLEAN :
       NewRecords(df, get_last_checkpoint(readable)) = {}
  /\ run' = [run EXCEPT !.load = "skipped"]
  /\ epc' = "archive"
  /\ UNCHANGED <<approval, source, df, table, checkpoints, runs>>
  /\ UNCHANGED avars

\* load_data: the rows are appended and the checkpoint is saved, or not
LoadAppends ==
  /\ epc = "load"
  /\ \E readable, saved \in BOOLEAN :
       LET new == NewRecords(df, get_last_checkpoint(readable)) IN
       /\ new # {}
       /\ table' = to_sql(table, new)
       /\ checkpoints' = save_checkpoint(checkpoints, Max(IdsOf(new)), saved)
  /\ run' = [run EXCEPT !.load = "appended"]
  /\ epc' = "archive"
  /\ UNCHANGED <<approval, source, df, runs>>
  /\ UNCHANGED avars

\* load_data: create_engine or to_sql raises; lines 172-174 log it and send
\* the alert, and load_data returns None like every other path
LoadFails ==
  /\ epc = "load"
  /\ run' = [run EXCEPT !.load = "failed"]
  /\ epc' = "archive"
  /\ UNCHANGED <<approval, source, df, table, checkpoints, runs>>
  /\ UNCHANGED avars

\* line 260 with archive_processed_file (192-201): os.rename moves the file
ArchiveOk ==
  /\ epc = "archive"
  /\ source.exists
  /\ source' = NoFile
  /\ run' = [run EXCEPT !.archived = TRUE]
  /\ epc' = "report"
  /\ UNCHANGED <<approval, df, table, checkpoints, runs>>
  /\ UNCHANGED avars

\* archive_processed_file: the rename raises, which is logged
ArchiveFails ==
  /\ epc = "archive"
  /\ epc' = "report"
  /\ UNCHANGED <<approval, source, df, table, checkpoints, run, runs>>
  /\ UNCHANGED avars

\* line 261 with generate_compliance_report (178-190): written, or the
\* exception is logged (etl_config_version.txt cannot be read)
Report ==
  /\ epc = "report"
  /\ \E written \in BOOLEAN : run' = [run EXCEPT !.report = written]
  /\ epc' = "finish"
  /\ UNCHANGED <<approval, source, df, table, checkpoints, runs>>
  /\ UNCHANGED avars

\* line 263: "ETL pipeline completed successfully."
Finish ==
  /\ epc = "finish"
  /\ run' = [run EXCEPT !.success = TRUE]
  /\ epc' = "idle"
  /\ runs' = runs + 1
  /\ UNCHANGED <<approval, source, df, table, checkpoints>>
  /\ UNCHANGED avars

ENext ==
  \/ SetApproval
  \/ PlaceSourceFile
  \/ StartRun
  \/ ExtractOk
  \/ ExtractFails
  \/ Validate
  \/ TransformOk
  \/ TransformFails
  \/ LoadSkips
  \/ LoadAppends
  \/ LoadFails
  \/ ArchiveOk
  \/ ArchiveFails
  \/ Report
  \/ Finish

----------------------------------------------------------------------------

(* The two specifications: one call of analyze_etl_script, and a sequence  *)
(* of pipeline runs.                                                       *)

\* no pipeline is running
EIdle ==
  /\ epc = "idle"
  /\ approval = FALSE
  /\ source = NoFile
  /\ df = {}
  /\ table = [i \in Ids |-> 0]
  /\ checkpoints = <<>>
  /\ run = FreshRun
  /\ runs = 0

\* no call of analyze_etl_script is made
AIdle ==
  /\ pc = "idle"
  /\ script_content = "text"
  /\ stdout_ok = TRUE
  /\ api_calls = 0
  /\ passes = 0
  /\ delivered = <<>>
  /\ audit_report = <<>>
  /\ exc = ""
  /\ result = <<>>

Init == AInit /\ EIdle

Next == ANext

Spec == Init /\ [][Next]_vars

InitETL == AIdle /\ EInit

NextETL == ENext

SpecETL == InitETL /\ [][NextETL]_vars

----------------------------------------------------------------------------

(* What the claims speak of: a fenced structured-results block of a text.  *)
(* The block opened at i is the marker and its newline at i, i+1, i+2, its *)
(* content, and the first newline-fence after the opening line.            *)

MarkerAt(t, i) == At(t, i) = FENCE /\ At(t, i + 1) = TAG /\ At(t, i + 2) = NL

HasMarker(t) == \E i \in 1..Len(t) : At(t, i) = FENCE /\ At(t, i + 1) = TAG

Terminators(t, i) ==
  { k \in (i + 3)..Len(t) : At(t, k) = NL /\ At(t, k + 1) = FENCE }

IsBlock(t, i) == MarkerAt(t, i) /\ Terminators(t, i) # {}

\* the blocks of a text, read from the left: the next block opens after the
\* closing fence of the one before
RECURSIVE BlocksFrom(_, _)
BlocksFrom(t, p) ==
  LET opens == { i \in p..Len(t) : IsBlock(t, i) } IN
  IF opens = {} THEN {}
  ELSE {Min(opens)} \cup BlocksFrom(t, Min(Terminators(t, Min(opens))) + 2)

Blocks(t) == BlocksFrom(t, 1)

ContentFrom(i) == i + 3

ContentTo(t, i) == Min(Terminators(t, i)) - 1

BlockContent(t, i) == SubSeq(t, ContentFrom(i), ContentTo(t, i))

\* the content is written as {...}: { right after the opening line, } right
\* before the closing newline
BraceDelimited(c) == Len(c) >= 2 /\ c[1] = LBRACE /\ c[Len(c)] = RBRACE

ParsesAsJson(c) == json_loads(c).ok

\* the first place where the marker, its newline and { stand
BraceOpens(t) == { i \in 1..Len(t) : MarkerAt(t, i) /\ At(t, i + 3) = LBRACE }

\* somewhere the marker, its newline and { are followed, later, by } and a
\* newline-fence
HasBracedBlock(t) ==
  \E i \in BraceOpens(t) : \E j \in (i + 4)..Len(t) :
    At(t, j) = RBRACE /\ At(t, j + 1) = NL /\ At(t, j + 2) = FENCE

\* the call returned from lines 94-106 (no exception was caught)
Extracted == pc = "returned" /\ exc = ""

\* the block the amended claims speak of: the first marker-newline-{ opens a
\* block whose content ends with }
FirstBraceBlock(t, i) ==
  /\ BraceOpens(t) # {}
  /\ i = Min(BraceOpens(t))
  /\ IsBlock(t, i)
  /\ BraceDelimited(BlockContent(t, i))

----------------------------------------------------------------------------

\* C1: no failure raised at any step of a call of analyze_etl_script escapes
\* to the caller as an exception.
C1_NoFailureEscapes == pc # "raised"

\* C2 as stated: when the report text contains a structured-results block whose
\* content parses as JSON, the call returns exactly the parsed content of that
\* block.
C2_AnyJsonBlockReturned ==
  Extracted =>
    \A i \in Blocks(audit_report) :
      ParsesAsJson(BlockContent(audit_report, i)) =>
        result = json_loads(BlockContent(audit_report, i)).val

\* C2 amended: when the first marker-newline-{ of the report text opens a block
\* whose content ends with } right before the closing newline-fence and parses
\* as JSON, the call returns exactly the parsed content of that block, whatever
\* precedes or follows it.
C2_FirstBraceBlockReturned ==
  Extracted =>
    \A i \in 1..Len(audit_report) :
      ( /\ FirstBraceBlock(audit_report, i)
        /\ ParsesAsJson(BlockContent(audit_report, i)) ) =>
        result = json_loads(BlockContent(audit_report, i)).val

\* C2 witness: noise, a block with {"a":1}, noise again, and {"a": 1} returned.
C2_Witness ==
  /\ Extracted
  /\ Len(audit_report) >= 2
  /\ audit_report[1] = " "
  /\ audit_report[Len(audit_report)] = " "
  /\ FirstBraceBlock(audit_report, 2)
  /\ BlockContent(audit_report, 2) = ObjA
  /\ result = [a |-> 1]

\* C3 as stated: with two or more structured-results blocks in the report text,
\* a span that is captured is the content of the first block: it starts in no
\* later block and does not run past the first block's closing fence.
C3_FirstBlockCaptured ==
  ( /\ Extracted
    /\ Cardinality(Blocks(audit_report)) >= 2
    /\ re_search(audit_report).found ) =>
    LET first == Min(Blocks(audit_report))
        m == re_search(audit_report)
    IN /\ m.from = ContentFrom(first)
       /\ m.to = ContentTo(audit_report, first)

\* C3 amended: with two or more structured-results blocks of which the first
\* has content written as {...}, the captured span is the content of the first
\* block only (it starts in no later block and ends at the first block's own
\* closing fence), and the result is what parsing that content gives.
C3_FirstBraceBlockCaptured ==
  ( /\ Extracted
    /\ Cardinality(Blocks(audit_report)) >= 2
    /\ BraceDelimited(BlockContent(audit_report, Min(Blocks(audit_report)))) ) =>
    LET first == Min(Blocks(audit_report))
        m == re_search(audit_report)
    IN /\ m.found
       /\ m.from = ContentFrom(first)
       /\ m.to = ContentTo(audit_report, first)
       /\ result = ParseGroup(BlockContent(audit_report, first))

\* C3 witness: a block with {"a":1}, then a block with {"b":1}, and {"a": 1}
\* returned.
C3_Witness ==
  /\ Extracted
  /\ Cardinality(Blocks(audit_report)) = 2
  /\ BlockContent(audit_report, Min(Blocks(audit_report))) = ObjA
  /\ BlockContent(audit_report, Max(Blocks(audit_report))) = ObjB
  /\ result = [a |-> 1]

\* C4 as stated: when the report text contains a structured-results block whose
\* content does not parse as JSON, the result is exactly
\* {"error": "Failed to parse structured JSON."}.
C4_AnyBadBlockIsInvalidJson ==
  Extracted =>
    \A i \in Blocks(audit_report) :
      ~ParsesAsJson(BlockContent(audit_report, i)) =>
        result = [error |-> "Failed to parse structured JSON."]

\* C4 amended: when the first marker-newline-{ of the report text opens a block
\* whose content ends with } right before the closing newline-fence and
\* json.loads rejects that content, the result is exactly
\* {"error": "Failed to parse structured JSON."}, without "raw_text".
C4_BadBraceBlockIsInvalidJson ==
  Extracted =>
    \A i \in 1..Len(audit_report) :
      ( /\ FirstBraceBlock(audit_report, i)
        /\ ~ParsesAsJson(BlockContent(audit_report, i)) ) =>
        /\ result = [error |-> "Failed to parse structured JSON."]
        /\ DOMAIN result = {"error"}

\* C4 witness: the block {bad json} was streamed and the error returned.
C4_Witness ==
  /\ Extracted
  /\ FirstBraceBlock(audit_report, 1)
  /\ BlockContent(audit_report, 1) = BadObj
  /\ result = [error |-> "Failed to parse structured JSON."]

\* C5: a report text without the structured-results marker gives exactly
\* {"error": "AI did not return structured JSON", "raw_text": the whole text},
\* and a returned mapping has "raw_text" only when no block was found.
C5_NoMarkerGivesRawText ==
  pc = "returned" =>
    /\ ( exc = "" /\ ~HasMarker(audit_report) ) =>
         result = [error |-> "AI did not return structured JSON",
                   raw_text |-> audit_report]
    /\ "raw_text" \in DOMAIN result =>
         /\ exc = ""
         /\ ~HasBracedBlock(audit_report)
         /\ result = [error |-> "AI did not return structured JSON",
                      raw_text |-> audit_report]

\* C5 witness: a text of blanks only was streamed and came back as raw_text.
C5_Witness ==
  /\ Extracted
  /\ audit_report # <<>>
  /\ ~HasMarker(audit_report)
  /\ "raw_text" \in DOMAIN result
  /\ result.raw_text = audit_report

\* C6: when call_genai_api or the stream fails, after any number of fragments,
\* the call returns exactly {"error": cause + "\n\nPlease check the input and
\* try again."} and nothing else.
C6_GenerationFailureIsAllOrNothing ==
  ( pc = "returned" /\ exc # "" ) =>
    /\ result = [error |-> exc \o "\n\nPlease check the input and try again."]
    /\ DOMAIN result = {"error"}

\* C6 witness: the stream failed after a complete block with {"a":1} had been
\* accumulated, and the error mapping was returned.
C6_Witness ==
  /\ pc = "returned"
  /\ exc = "Connection error."
  /\ delivered # <<>>
  /\ Extract(audit_report) = [a |-> 1]
  /\ "error" \in DOMAIN result

RECURSIVE Concat(_)
Concat(chunks) ==
  IF chunks = <<>> THEN <<>>
  ELSE IF Head(chunks).none THEN Concat(Tail(chunks))
  ELSE Head(chunks).content \o Concat(Tail(chunks))

LastOf(q) == q[Len(q)]

\* C7: each processed fragment extends the accumulator by its content (by
\* nothing when it has none), and the accumulator, and so the text handed to
\* extraction, is the contents of the delivered fragments in delivery order.
C7_OrderPreservingConcat ==
  /\ [](/\ audit_report = Concat(delivered)
        /\ ( pc = "returned" /\ "raw_text" \in DOMAIN result ) =>
             result.raw_text = Concat(delivered))
  /\ [][delivered' # delivered =>
          audit_report' =
            audit_report \o (IF LastOf(delivered').none
                               THEN <<>> ELSE LastOf(delivered').content)]_vars

\* C7 witness: " ", a chunk without content, "" and "\n```" were delivered and
\* " \n```" was handed to extraction.
C7_Witness ==
  /\ Extracted
  /\ delivered = <<StrChunk(<<" ">>), NoneChunk, StrChunk(<<>>),
                   StrChunk(CloseLine)>>
  /\ audit_report = <<" ", NL, FENCE>>
  /\ result.raw_text = <<" ", NL, FENCE>>

C9_AppendedAtMostOnce ==
  [][\A i \in Ids :
       table'[i] # table[i] =>
         /\ table[i] = 0
         /\ table'[i] = 1
         /\ \A k \in Ids : table[k] > 0 => k < i]_vars

\* C10: the file is archived, the report written and success logged only in a
\* run that was approved, extracted, transformed, and whose load step appended
\* its records or had none to append.
C10_SuccessOnlyAfterLoad ==
  ( run.archived \/ run.report \/ run.success ) =>
    /\ run.approved
    /\ run.extracted
    /\ run.transformed
    /\ run.load \in {"appended", "skipped"}

====
